---- MODULE Spec2Model ----
(***************************************************************************)
(* Model of the Ethereum dashboard page (students/student_twinkle.py) and  *)
(* of the portal router (app/main.py).                                     *)
(*                                                                         *)
(* Two threads run per page load: "render" executes main.py and, through   *)
(* load_student_page, app(); "warm" executes _warm_coingecko.  Both go     *)
(* through the st.cache_data endpoints (a TTL cache, one compute lock per  *)
(* entry) into _fetch, which sits behind functools.lru_cache.              *)
(*                                                                         *)
(* Python values are modelled as follows.                                  *)
(*   Optional value : <<>> is None, <<x>> is x.                            *)
(*   dict           : the sequence of its <<key, value>> items in          *)
(*                    insertion order (keys distinct).                     *)
(*   URL            : the sequence of its path segments; a substring test  *)
(*                    `"ohlc" in url` is a test for that segment.          *)
(*   fetched data   : a record [kind, q]; kind is "none" (None),           *)
(*                    "live" (the body the upstream serves, of the         *)
(*                    expected schema), "odd" (a JSON object that lacks    *)
(*                    the expected keys) or "records" (the list of row     *)
(*                    dicts pandas makes of a snapshot file).              *)
(***************************************************************************)
EXTENDS Integers, Sequences, FiniteSets, TLC

VARIABLES
    now,      \* wall clock, seconds
    schema,   \* whether the upstream's bodies have the schema app() expects
    files,    \* state of each fallback snapshot file
    ttlc,     \* st.cache_data: entry per (function, args)
    lock,     \* st.cache_data: compute lock per entry
    memo,     \* lru_cache of _fetch: sequence of [key, val], least recent first
    pc,       \* position of each thread in its program
    phase,    \* position of each thread inside an endpoint / _fetch call
    cur,      \* the call each thread is executing or executed last
    attempt,  \* _fetch: loop variable `attempt`
    gets,     \* requests.get calls made by the thread's current call
    sleeps,   \* time.sleep calls made by the thread's current call
    last,     \* outcome of the latest HTTP attempt of the current call
    mh,       \* whether lru_cache answered the current _fetch call
    rd,       \* what the TTL cache answered to the current endpoint call
    res,      \* value _fetch returned to the endpoint
    ret,      \* value the latest endpoint call returned to app()
    ohlc,     \* app(): local variable ohlc
    shown,    \* elements rendered on the page of the current request
    warned,   \* threads that called st.warning during the current request
    req,      \* Optional `student` query parameter of the current request
    loads,    \* number of requests (of direct _fetch calls) made so far
    hp,       \* pair of parameter mappings handed to _make_hashable
    hk        \* the pair of cache keys _make_hashable returned for hp

vars == <<now, schema, files, ttlc, lock, memo, pc, phase, cur, attempt, gets,
          sleeps, last, mh, rd, res, ret, ohlc, shown, warned, req, loads,
          hp, hk>>

(***************************************************************************)
(* Bounds of the model                                                     *)
(***************************************************************************)
MaxLoads == 2
MaxTime == 600
TickStep == 300
MaxRetries == 3
MaxParams == 2

(***************************************************************************)
(* Program constants                                                       *)
(***************************************************************************)
COINGECKO == "https://api.coingecko.com/api/v3"
COIN_ID == "ethereum"
TTL_METADATA == 600
TTL_LIVE == 300
TTL_OHLC == 600
TTL_CHART == 600
DefaultRetries == 3
MemoMaxsize == 16
AppDays == 90
WarmDays == 30

Threads == {"render", "warm"}

None == <<>>
Some(x) == <<x>>

\* ------------------------------------------------------------------------
\* Fetched values
\* ------------------------------------------------------------------------
NoneV == [kind |-> "none", q |-> ""]
Live(u) == [kind |-> "live", q |-> u[Len(u)]]
Odd(u) == [kind |-> "odd", q |-> u[Len(u)]]

\* r.json() of a successful response.
Body(u, sch) == IF sch = "expected" THEN Live(u) ELSE Odd(u)

\* Python truthiness of a fetched value: None is falsy, a non-empty dict or
\* list is truthy.
Truthy(v) == v.kind # "none"

\* ------------------------------------------------------------------------
\* _make_hashable: json.dumps(params, sort_keys=True)
\* ------------------------------------------------------------------------
\* The parameter names the program uses, in the order Python sorts strings.
KeyOrder == <<"days", "ids", "include_24hr_change", "include_24hr_vol",
              "include_market_cap", "vs_currencies", "vs_currency">>

Rank(k) == CHOOSE i \in DOMAIN KeyOrder : KeyOrder[i] = k

PyInt(n) == [py |-> "int", text |-> ToString(n)]
PyStr(s) == [py |-> "str", text |-> s]

\* JSON text of a primitive value: a string is quoted, a number is not.
JsonValue(v) == IF v.py = "str" THEN <<"\"", v.text, "\"">> ELSE <<v.text>>

\* json.dumps without sort_keys: the items in insertion order.
DumpsInsertionOrder(d) == [i \in 1..Len(d) |-> <<d[i][1], JsonValue(d[i][2])>>]

\* json.dumps(d, sort_keys=True): the items ordered by key.
Dumps(d) ==
    [i \in 1..Len(d) |->
        LET j == CHOOSE j \in DOMAIN d :
                    Cardinality({m \in DOMAIN d : Rank(d[m][1]) < Rank(d[j][1])}) = i - 1
        IN  <<d[j][1], JsonValue(d[j][2])>>]

make_hashable(params) == IF params = None THEN None ELSE Some(Dumps(params[1]))

\* ------------------------------------------------------------------------
\* Cached endpoints
\* ------------------------------------------------------------------------
Call(fn, days) == [fn |-> fn, days |-> days]

\* The (function, argument) pairs the program calls.
CallKeys == {Call("get_metadata", 0), Call("get_live_market", 0),
             Call("get_ohlc", WarmDays), Call("get_ohlc", AppDays),
             Call("get_market_chart", AppDays)}

TTL(fn) ==
    CASE fn = "get_metadata" -> TTL_METADATA
      [] fn = "get_live_market" -> TTL_LIVE
      [] fn = "get_ohlc" -> TTL_OHLC
      [] fn = "get_market_chart" -> TTL_CHART

Url(fn) ==
    CASE fn = "get_metadata" -> <<COINGECKO, "coins", COIN_ID>>
      [] fn = "get_live_market" -> <<COINGECKO, "simple", "price">>
      [] fn = "get_ohlc" -> <<COINGECKO, "coins", COIN_ID, "ohlc">>
      [] fn = "get_market_chart" -> <<COINGECKO, "coins", COIN_ID, "market_chart">>

\* The params dict each endpoint builds, in the order it is written.
Params(k) ==
    CASE k.fn = "get_live_market" ->
            <<<<"ids", PyStr(COIN_ID)>>, <<"vs_currencies", PyStr("usd")>>,
              <<"include_market_cap", PyStr("true")>>,
              <<"include_24hr_vol", PyStr("true")>>,
              <<"include_24hr_change", PyStr("true")>>>>
      [] k.fn \in {"get_ohlc", "get_market_chart"} ->
            <<<<"vs_currency", PyStr("usd")>>, <<"days", PyInt(k.days)>>>>

\* The positional arguments after url the endpoint passes to _fetch.
FetchArgs(k) ==
    IF k.fn = "get_metadata" THEN <<>> ELSE <<make_hashable(Some(Params(k)))>>

\* The lru_cache key of a _fetch call: its arguments as passed.
MemoKey(url, args) == [url |-> url, args |-> args]

NoCall == [fn |-> "", days |-> 0, url |-> <<>>, args |-> <<>>, retries |-> 0]

EndpointCall(k) ==
    [fn |-> k.fn, days |-> k.days, url |-> Url(k.fn), args |-> FetchArgs(k),
     retries |-> DefaultRetries]


\* ------------------------------------------------------------------------
\* lru_cache(maxsize=16) around _fetch
\* ------------------------------------------------------------------------
InMemo(m, key) == \E i \in DOMAIN m : m[i].key = key

MemoVal(m, key) == m[CHOOSE i \in DOMAIN m : m[i].key = key].val

\* A hit moves the entry to the most recently used end.
MemoTouch(m, key) ==
    LET i == CHOOSE i \in DOMAIN m : m[i].key = key
    IN  SubSeq(m, 1, i - 1) \o SubSeq(m, i + 1, Len(m)) \o <<m[i]>>

\* A memo that does not keep the failure marker.
MemoPutDropNone(m, key, val) ==
    IF val.kind = "none" \/ InMemo(m, key) THEN m
    ELSE Append(m, [key |-> key, val |-> val])

\* The wrapper stores what the call returned, None included; a full cache
\* drops its least recently used entry.
MemoPut(m, key, val) ==
    IF InMemo(m, key) THEN m
    ELSE IF Len(m) >= MemoMaxsize
         THEN Append(Tail(m), [key |-> key, val |-> val])
         ELSE Append(m, [key |-> key, val |-> val])

\* ------------------------------------------------------------------------
\* _fetch: exception handlers and fallback
\* ------------------------------------------------------------------------
\* What an HTTP attempt can raise: requests.get (transport), raise_for_status
\* (non-success status), r.json() (malformed JSON).
AttemptErrors == {"Timeout", "ConnectionError", "HTTPError", "JSONDecodeError"}

\* What reading a snapshot file raises, by the state of the file.
SnapshotFiles == {"backup_market_chart.json", "backup_ohlc.json"}
FileStates == {"ok", "missing", "corrupt"}
\* The deployments the page model starts from: each snapshot bundled or not.
BundledStates == {"ok", "missing"}
ReadError(state) == IF state = "missing" THEN "FileNotFoundError" ELSE "ValueError"

\* `except Exception` around the attempt.
AttemptCatches(e) == e \in AttemptErrors \cup {"FileNotFoundError", "ValueError"}

\* A handler that only expects the file to be absent.
FallbackCatchesMissingOnly(e) == e = "FileNotFoundError"

\* The bare `except` around the snapshot read.
FallbackCatches(e) == TRUE

Contains(url, segment) == \E i \in DOMAIN url : url[i] = segment

\* pd.read_json(file).to_dict(orient="records"): a list with one dict per row.
ToRecords(file) == [kind |-> "records", q |-> file]

ReadSnapshot(file, fs) ==
    IF fs[file] = "ok" THEN [raised |-> FALSE, val |-> ToRecords(file)]
    ELSE IF FallbackCatches(ReadError(fs[file]))
         THEN [raised |-> FALSE, val |-> NoneV]
         ELSE [raised |-> TRUE, val |-> NoneV]

\* A fallback that looks for the OHLC snapshot first and knows no other.
FallbackOhlcOnly(url, fs) ==
    IF Contains(url, "ohlc") \/ Contains(url, "market_chart")
    THEN ReadSnapshot("backup_ohlc.json", fs)
    ELSE [raised |-> FALSE, val |-> NoneV]

\* The inner try of the last attempt; a URL of neither kind falls out of the
\* loop and the function returns None.
Fallback(url, fs) ==
    IF Contains(url, "market_chart") THEN ReadSnapshot("backup_market_chart.json", fs)
    ELSE IF Contains(url, "ohlc") THEN ReadSnapshot("backup_ohlc.json", fs)
    ELSE [raised |-> FALSE, val |-> NoneV]

\* ------------------------------------------------------------------------
\* st.cache_data
\* ------------------------------------------------------------------------
NoEntry == [present |-> FALSE, val |-> NoneV, ts |-> 0]

\* An entry that every endpoint keeps for the shortest of the TTLs.
FreshShortestTTL(k, c, t) == c[k].present /\ t < c[k].ts + TTL_LIVE

\* An entry answers a read until its TTL has elapsed.
Fresh(k, c, t) == c[k].present /\ t < c[k].ts + TTL(k.fn)

\* ------------------------------------------------------------------------
\* Programs of the two threads
\* ------------------------------------------------------------------------
\* The endpoint call made at each program position.
CallAt(p) ==
    CASE p \in {"live", "w_live"} -> Call("get_live_market", 0)
      [] p = "ohlc" -> Call("get_ohlc", AppDays)
      [] p = "w_ohlc" -> Call("get_ohlc", WarmDays)
      [] p = "chart" -> Call("get_market_chart", AppDays)
      [] p \in {"meta", "w_meta"} -> Call("get_metadata", 0)

CallPositions == {"live", "ohlc", "chart", "meta", "w_live", "w_ohlc", "w_meta"}

AfterCall(p) ==
    CASE p = "live" -> "live_use"
      [] p = "ohlc" -> "chart"
      [] p = "chart" -> "charts_use"
      [] p = "meta" -> "meta_use"
      [] p = "w_live" -> "w_ohlc"
      [] p = "w_ohlc" -> "w_meta"
      [] p = "w_meta" -> "w_done"

\* What the upstream's successful bodies look like, for the whole run.
Schemas == {"expected", "changed"}

Boot(schemas, fileStates, start, inputs) ==
    /\ now = 0
    /\ schema \in schemas
    /\ files \in [SnapshotFiles -> fileStates]
    /\ ttlc = [k \in CallKeys |-> NoEntry]
    /\ lock = [k \in CallKeys |-> "free"]
    /\ memo = <<>>
    /\ pc = [t \in Threads |-> IF t = "render" THEN start ELSE "w_idle"]
    /\ phase = [t \in Threads |-> "idle"]
    /\ cur = [t \in Threads |-> NoCall]
    /\ attempt = [t \in Threads |-> 0]
    /\ gets = [t \in Threads |-> 0]
    /\ sleeps = [t \in Threads |-> 0]
    /\ last = [t \in Threads |-> "none"]
    /\ mh = [t \in Threads |-> FALSE]
    /\ rd = [t \in Threads |-> "none"]
    /\ res = [t \in Threads |-> NoneV]
    /\ ret = NoneV
    /\ ohlc = NoneV
    /\ shown = {}
    /\ warned = {}
    /\ req = None
    /\ loads = 1
    /\ hp \in inputs
    /\ hk = <<>>

\* The process has started; the first request is about to be routed.
Init == Boot(Schemas, BundledStates, "route", {<<>>})

envVars == <<now, schema, files>>
pageVars == <<ohlc, shown, req, loads>>
hashVars == <<hp, hk>>

\* ------------------------------------------------------------------------
\* _fetch
\* ------------------------------------------------------------------------
\* The call enters the lru_cache wrapper: a memoised key is answered from the
\* memo, any other key runs the function body.
FetchEnter(t, c) ==
    LET key == MemoKey(c.url, c.args) IN
    /\ cur' = [cur EXCEPT ![t] = c]
    /\ attempt' = [attempt EXCEPT ![t] = 0]
    /\ gets' = [gets EXCEPT ![t] = 0]
    /\ sleeps' = [sleeps EXCEPT ![t] = 0]
    /\ last' = [last EXCEPT ![t] = "none"]
    /\ IF InMemo(memo, key)
       THEN /\ mh' = [mh EXCEPT ![t] = TRUE]
            /\ res' = [res EXCEPT ![t] = MemoVal(memo, key)]
            /\ memo' = MemoTouch(memo, key)
            /\ phase' = [phase EXCEPT ![t] = "fetched"]
       ELSE /\ mh' = [mh EXCEPT ![t] = FALSE]
            /\ res' = [res EXCEPT ![t] = NoneV]
            /\ memo' = memo
            /\ phase' = [phase EXCEPT ![t] = "http"]

\* A loop that takes the last attempt for one more to come.
MoreAttemptsOffByOne(a, r) == a < r

\* `if attempt < retries - 1`
MoreAttempts(a, r) == a < r - 1

\* An attempt succeeds: the parsed body is returned and memoised.
HttpOk(t) ==
    /\ phase[t] = "http"
    /\ LET body == Body(cur[t].url, schema) IN
        /\ res' = [res EXCEPT ![t] = body]
        /\ memo' = MemoPut(memo, MemoKey(cur[t].url, cur[t].args), body)
    /\ gets' = [gets EXCEPT ![t] = @ + 1]
    /\ last' = [last EXCEPT ![t] = "ok"]
    /\ phase' = [phase EXCEPT ![t] = "fetched"]
    /\ UNCHANGED <<envVars, pageVars, hashVars, ttlc, lock, pc, cur, attempt,
                   sleeps, mh, rd, ret, warned>>

\* An attempt other than the last fails: sleep, then the next attempt.
HttpRetry(t) ==
    /\ phase[t] = "http"
    /\ MoreAttempts(attempt[t], cur[t].retries)
    /\ gets' = [gets EXCEPT ![t] = @ + 1]
    /\ \E e \in AttemptErrors :
        IF AttemptCatches(e)
        THEN /\ sleeps' = [sleeps EXCEPT ![t] = @ + 1]
             /\ attempt' = [attempt EXCEPT ![t] = @ + 1]
             /\ last' = [last EXCEPT ![t] = "fail"]
             /\ phase' = phase
        ELSE /\ phase' = [phase EXCEPT ![t] = "raised"]
             /\ UNCHANGED <<sleeps, attempt, last>>
    /\ UNCHANGED <<envVars, pageVars, hashVars, ttlc, lock, memo, pc, cur,
                   mh, rd, res, ret, warned>>

\* The last attempt fails: warn, then the snapshot of the query's kind or None.
HttpFinalFail(t) ==
    /\ phase[t] = "http"
    /\ ~MoreAttempts(attempt[t], cur[t].retries)
    /\ gets' = [gets EXCEPT ![t] = @ + 1]
    /\ \E e \in AttemptErrors :
        LET f == Fallback(cur[t].url, files) IN
        IF AttemptCatches(e) /\ ~f.raised
        THEN /\ last' = [last EXCEPT ![t] = "fail"]
             /\ warned' = warned \cup {t}
             /\ res' = [res EXCEPT ![t] = f.val]
             /\ memo' = MemoPut(memo, MemoKey(cur[t].url, cur[t].args), f.val)
             /\ phase' = [phase EXCEPT ![t] = "fetched"]
        ELSE /\ phase' = [phase EXCEPT ![t] = "raised"]
             /\ warned' = IF AttemptCatches(e) THEN warned \cup {t} ELSE warned
             /\ UNCHANGED <<last, res, memo>>
    /\ UNCHANGED <<envVars, pageVars, hashVars, ttlc, lock, pc, cur, attempt,
                   sleeps, mh, rd, ret>>


\* ------------------------------------------------------------------------
\* Cached endpoints (st.cache_data around get_metadata, get_live_market,
\* get_ohlc, get_market_chart)
\* ------------------------------------------------------------------------
\* The value reaches the caller: app() keeps it (`ohlc = get_ohlc(days)`),
\* _warm_coingecko drops it.
Deliver(t, v) ==
    /\ ret' = IF t = "render" THEN v ELSE ret
    /\ ohlc' = IF pc[t] = "ohlc" THEN v ELSE ohlc
    /\ pc' = [pc EXCEPT ![t] = AfterCall(pc[t])]

\* The entry answers: no lock taken, the function body does not run.
TtlHit(t) ==
    /\ pc[t] \in CallPositions
    /\ phase[t] = "idle"
    /\ Fresh(CallAt(pc[t]), ttlc, now)
    /\ Deliver(t, ttlc[CallAt(pc[t])].val)
    /\ rd' = [rd EXCEPT ![t] = "hit"]
    /\ UNCHANGED <<envVars, hashVars, ttlc, lock, memo, phase, cur, attempt,
                   gets, sleeps, last, mh, res, shown, warned, req, loads>>

\* No entry, or an expired one: take the entry's compute lock and run the
\* function body, which calls _fetch.
TtlMiss(t) ==
    /\ pc[t] \in CallPositions
    /\ phase[t] = "idle"
    /\ LET k == CallAt(pc[t]) IN
        /\ ~Fresh(k, ttlc, now)
        /\ lock[k] = "free"
        /\ lock' = [lock EXCEPT ![k] = t]
        /\ rd' = [rd EXCEPT ![t] = IF ttlc[k].present THEN "expired" ELSE "miss"]
        /\ FetchEnter(t, EndpointCall(k))
    /\ UNCHANGED <<envVars, pageVars, hashVars, ttlc, pc, ret, warned>>

\* The thread's call is over.
CallOver(t) ==
    /\ phase' = [phase EXCEPT ![t] = "idle"]
    /\ cur' = [cur EXCEPT ![t] = NoCall]
    /\ attempt' = [attempt EXCEPT ![t] = 0]
    /\ gets' = [gets EXCEPT ![t] = 0]
    /\ sleeps' = [sleeps EXCEPT ![t] = 0]
    /\ last' = [last EXCEPT ![t] = "none"]
    /\ mh' = [mh EXCEPT ![t] = FALSE]
    /\ res' = [res EXCEPT ![t] = NoneV]

\* _fetch returned: store the value with the current time, release the lock,
\* hand the value to the caller.
EndpointReturn(t) ==
    /\ pc[t] \in CallPositions
    /\ phase[t] = "fetched"
    /\ LET k == CallAt(pc[t]) IN
        /\ ttlc' = [ttlc EXCEPT ![k] = [present |-> TRUE, val |-> res[t], ts |-> now]]
        /\ lock' = [lock EXCEPT ![k] = "free"]
    /\ Deliver(t, res[t])
    /\ CallOver(t)
    /\ UNCHANGED <<envVars, hashVars, memo, rd, shown, warned, req, loads>>

\* ------------------------------------------------------------------------
\* Router (app/main.py)
\* ------------------------------------------------------------------------
\* Values of the `student` query parameter: absent, empty, the page of this
\* repository, a page the landing page links to but the repository lacks, an
\* importable module that is no page.
StudentParams == {None, Some(""), Some("student_twinkle"), Some("student_nidhi"),
                  Some("json")}

\* `if active_student:`
ParamTruthy(s) == s # None /\ s[1] # ""

\* importlib.import_module(name) and the hasattr tests: the entry function
\* found, "none", or the exception raised.
EntryOf(name) ==
    CASE name = "student_twinkle" -> "app"
      [] name = "json" -> "none"
      [] OTHER -> "ModuleNotFoundError"

\* A handler for import failures only.
RouterCatchesImportOnly(e) == e \in {"ImportError", "ModuleNotFoundError"}

\* `except Exception as e` in load_student_page.
RouterCatches(e) ==
    e \in {"ImportError", "ModuleNotFoundError", "AttributeError", "KeyError",
           "TypeError", "ValueError"}

\* What the page shows for an exception raised under load_student_page: the
\* inline st.error, or the traceback of an exception that left the router.
OnException(e) == IF RouterCatches(e) THEN "error" ELSE "traceback"

threadVars == <<ttlc, lock, memo, phase, cur, attempt, gets, sleeps, last, mh,
                res, warned>>

RouteLanding ==
    /\ pc["render"] = "route"
    /\ \E s \in StudentParams :
        /\ ~ParamTruthy(s)
        /\ req' = s
    /\ shown' = {"landing"}
    /\ pc' = [pc EXCEPT !["render"] = "end"]
    /\ UNCHANGED <<envVars, hashVars, threadVars, rd, ret, ohlc, loads>>

RouteError ==
    /\ pc["render"] = "route"
    /\ \E s \in StudentParams :
        /\ ParamTruthy(s)
        /\ EntryOf(s[1]) # "app"
        /\ req' = s
        /\ shown' = IF EntryOf(s[1]) = "none" THEN {"error"}
                    ELSE {OnException(EntryOf(s[1]))}
    /\ pc' = [pc EXCEPT !["render"] = "end"]
    /\ UNCHANGED <<envVars, hashVars, threadVars, rd, ret, ohlc, loads>>

RouteApp ==
    /\ pc["render"] = "route"
    /\ \E s \in StudentParams :
        /\ ParamTruthy(s)
        /\ EntryOf(s[1]) = "app"
        /\ req' = s
    /\ shown' = {}
    /\ pc' = [pc EXCEPT !["render"] = "app_start"]
    /\ UNCHANGED <<envVars, hashVars, threadVars, rd, ret, ohlc, loads>>

\* ------------------------------------------------------------------------
\* app() (students/student_twinkle.py)
\* ------------------------------------------------------------------------
\* Theme, warm-up thread started, title and prediction iframe.
AppStart ==
    /\ pc["render"] = "app_start"
    /\ pc' = [pc EXCEPT !["render"] = "live", !["warm"] = "w_live"]
    /\ rd' = [t \in Threads |-> "none"]
    /\ shown' = shown \cup {"title", "iframe"}
    /\ UNCHANGED <<envVars, hashVars, threadVars, ret, ohlc, req, loads>>

\* `if mk and COIN_ID in mk`: the tiles, or the unavailable message.
KpiWidget(mk) == IF Truthy(mk) /\ mk.kind = "live" THEN "kpi" ELSE "kpi_info"

LiveUse ==
    /\ pc["render"] = "live_use"
    /\ shown' = shown \cup {KpiWidget(ret)}
    /\ pc' = [pc EXCEPT !["render"] = "ohlc"]
    /\ rd' = [rd EXCEPT !["render"] = "none"]
    /\ ret' = NoneV
    /\ UNCHANGED <<envVars, hashVars, threadVars, ohlc, req, loads>>

\* plot_candlestick: None for a falsy series, a figure otherwise.
plot_candlestick(o) == IF ~Truthy(o) THEN None ELSE Some("candlestick")

CandleWidget(o) == IF plot_candlestick(o) # None THEN "candle" ELSE "candle_info"

\* `if market_chart:` then market_chart.get(key) for both keys: a list has
\* no .get; a dict without the keys draws nothing.
LineCharts(mc) ==
    IF ~Truthy(mc) THEN [raises |-> None, draws |-> {}]
    ELSE IF mc.kind = "records" THEN [raises |-> Some("AttributeError"), draws |-> {}]
    ELSE IF mc.kind = "live" THEN [raises |-> None, draws |-> {"lines"}]
    ELSE [raises |-> None, draws |-> {}]

ChartsUse ==
    /\ pc["render"] = "charts_use"
    /\ LineCharts(ret).raises = None
    /\ shown' = shown \cup {CandleWidget(ohlc)} \cup LineCharts(ret).draws
    /\ pc' = [pc EXCEPT !["render"] = "meta"]
    /\ rd' = [rd EXCEPT !["render"] = "none"]
    /\ ret' = NoneV
    /\ ohlc' = NoneV
    /\ UNCHANGED <<envVars, hashVars, threadVars, req, loads>>

ChartsRaise ==
    /\ pc["render"] = "charts_use"
    /\ LineCharts(ret).raises # None
    /\ shown' = shown \cup {CandleWidget(ohlc), OnException(LineCharts(ret).raises[1])}
    /\ pc' = [pc EXCEPT !["render"] = "end"]
    /\ rd' = [rd EXCEPT !["render"] = "none"]
    /\ ret' = NoneV
    /\ ohlc' = NoneV
    /\ UNCHANGED <<envVars, hashVars, threadVars, req, loads>>

\* `if meta:` then meta["image"]["large"], meta["name"], ... unguarded.
Fundamentals(meta) ==
    IF ~Truthy(meta) THEN [raises |-> None, draws |-> {"meta_info"}]
    ELSE IF meta.kind = "live" THEN [raises |-> None, draws |-> {"meta"}]
    ELSE IF meta.kind = "odd" THEN [raises |-> Some("KeyError"), draws |-> {}]
    ELSE [raises |-> Some("TypeError"), draws |-> {}]

MetaUse ==
    /\ pc["render"] = "meta_use"
    /\ Fundamentals(ret).raises = None
    /\ shown' = shown \cup Fundamentals(ret).draws
    /\ pc' = [pc EXCEPT !["render"] = "summary"]
    /\ rd' = [rd EXCEPT !["render"] = "none"]
    /\ ret' = NoneV
    /\ UNCHANGED <<envVars, hashVars, threadVars, ohlc, req, loads>>

MetaRaise ==
    /\ pc["render"] = "meta_use"
    /\ Fundamentals(ret).raises # None
    /\ shown' = shown \cup {OnException(Fundamentals(ret).raises[1])}
    /\ pc' = [pc EXCEPT !["render"] = "end"]
    /\ rd' = [rd EXCEPT !["render"] = "none"]
    /\ ret' = NoneV
    /\ UNCHANGED <<envVars, hashVars, threadVars, ohlc, req, loads>>

Summary ==
    /\ pc["render"] = "summary"
    /\ shown' = shown \cup {"summary"}
    /\ pc' = [pc EXCEPT !["render"] = "end"]
    /\ UNCHANGED <<envVars, hashVars, threadVars, rd, ret, ohlc, req, loads>>

\* ------------------------------------------------------------------------
\* Environment
\* ------------------------------------------------------------------------
Quiet == pc["render"] = "end" /\ pc["warm"] \in {"w_idle", "w_done"}

\* The next request of the session: the script runs again from the top.
NewRequest ==
    /\ Quiet
    /\ loads < MaxLoads
    /\ loads' = loads + 1
    /\ pc' = [pc EXCEPT !["render"] = "route"]
    /\ shown' = {}
    /\ warned' = {}
    /\ req' = None
    /\ UNCHANGED <<envVars, hashVars, ttlc, lock, memo, phase, cur, attempt,
                   gets, sleeps, last, mh, rd, res, ret, ohlc>>

\* Time passes between two requests (a page load is short against the TTLs).
Tick ==
    /\ Quiet
    /\ now + TickStep <= MaxTime
    /\ now' = now + TickStep
    /\ UNCHANGED <<schema, files, pageVars, hashVars, threadVars, pc, rd, ret>>

Next ==
    \/ \E t \in Threads : TtlHit(t)
    \/ \E t \in Threads : TtlMiss(t)
    \/ \E t \in Threads : HttpOk(t)
    \/ \E t \in Threads : HttpRetry(t)
    \/ \E t \in Threads : HttpFinalFail(t)
    \/ \E t \in Threads : EndpointReturn(t)
    \/ RouteLanding
    \/ RouteError
    \/ RouteApp
    \/ AppStart
    \/ LiveUse
    \/ ChartsUse
    \/ ChartsRaise
    \/ MetaUse
    \/ MetaRaise
    \/ Summary
    \/ NewRequest
    \/ Tick

Spec == Init /\ [][Next]_vars


\* ------------------------------------------------------------------------
\* _fetch called on its own, with any retries >= 1
\* ------------------------------------------------------------------------
DirectCalls ==
    {[fn |-> k.fn, days |-> k.days, url |-> Url(k.fn),
      args |-> <<IF k.fn = "get_metadata" THEN None
                 ELSE make_hashable(Some(Params(k))), r>>,
      retries |-> r] : k \in CallKeys \ {Call("get_ohlc", WarmDays)}, r \in 1..MaxRetries}

DirectCall(t) ==
    /\ pc[t] = "direct"
    /\ phase[t] = "idle"
    /\ loads <= MaxLoads
    /\ loads' = loads + 1
    /\ \E c \in DirectCalls : FetchEnter(t, c)
    /\ UNCHANGED <<envVars, hashVars, ttlc, lock, pc, rd, ret, ohlc, shown,
                   warned, req>>

DirectReturn(t) ==
    /\ pc[t] = "direct"
    /\ phase[t] = "fetched"
    /\ ret' = res[t]
    /\ CallOver(t)
    /\ UNCHANGED <<envVars, pageVars, hashVars, ttlc, lock, memo, pc, rd, warned>>

InitFetch == Boot({"expected"}, FileStates, "direct", {<<>>})

HttpStep(t) == HttpOk(t) \/ HttpRetry(t) \/ HttpFinalFail(t)

NextFetch ==
    \/ DirectCall("render")
    \/ HttpOk("render")
    \/ HttpRetry("render")
    \/ HttpFinalFail("render")
    \/ DirectReturn("render")

\* requests.get returns or raises within its timeout and time.sleep ends: an
\* attempt that can be made is made.
SpecFetch == InitFetch /\ [][NextFetch]_vars /\ WF_vars(HttpStep("render"))

\* ------------------------------------------------------------------------
\* _make_hashable called on its own
\* ------------------------------------------------------------------------
HashKeys == {"days", "ids", "vs_currency"}
HashVals == {PyStr("usd"), PyInt(AppDays)}

\* The dicts of at most MaxParams items: sequences of items with distinct keys.
Dicts ==
    UNION {{d \in [1..n -> HashKeys \X HashVals] :
                \A i, j \in 1..n : i # j => d[i][1] # d[j][1]} : n \in 0..MaxParams}

HashInputs == {None} \cup {Some(d) : d \in Dicts}

HashBoth ==
    /\ hk = <<>>
    /\ hk' = <<make_hashable(hp[1]), make_hashable(hp[2])>>
    /\ UNCHANGED <<envVars, pageVars, threadVars, pc, rd, ret, hp>>

InitHash == Boot({"expected"}, {"ok"}, "route", HashInputs \X HashInputs)

SpecHash == InitHash /\ [][HashBoth]_vars


(***************************************************************************)
(* Properties                                                              *)
(***************************************************************************)
CHART_FILE == "backup_market_chart.json"
OHLC_FILE == "backup_ohlc.json"

\* The call of thread t ran the function body and every attempt failed.
AllFailed(t) == phase[t] = "fetched" /\ ~mh[t] /\ last[t] = "fail"

\* C1: a _fetch call whose attempts all fail, for any retries >= 1, returns
\* the records of the market-chart snapshot for the market-chart URL and the
\* records of the OHLC snapshot for the OHLC URL when that file is readable,
\* and in neither case None.
C1_FallbackReturned ==
    \A t \in Threads :
        AllFailed(t) =>
            /\ (cur[t].url = Url("get_market_chart") /\ files[CHART_FILE] = "ok")
                   => (res[t] = ToRecords(CHART_FILE) /\ res[t] # NoneV)
            /\ (cur[t].url = Url("get_ohlc") /\ files[OHLC_FILE] = "ok")
                   => (res[t] = ToRecords(OHLC_FILE) /\ res[t] # NoneV)

C1_Witness ==
    /\ AllFailed("render")
    /\ cur["render"].retries = MaxRetries
    /\ cur["render"].url = Url("get_market_chart")
    /\ files[CHART_FILE] = "ok"
    /\ files[OHLC_FILE] = "missing"

\* No snapshot answers for the URL: it is of neither kind, or its file is
\* missing or unreadable.
NoFallback(url) ==
    \/ url \in {Url("get_metadata"), Url("get_live_market")}
    \/ url = Url("get_market_chart") /\ files[CHART_FILE] # "ok"
    \/ url = Url("get_ohlc") /\ files[OHLC_FILE] # "ok"

\* C2: a _fetch call whose attempts all fail and that no snapshot answers
\* returns None, and no exception of an attempt or of the snapshot read
\* leaves _fetch.
C2_UnavailableIsNone ==
    \A t \in Threads :
        /\ phase[t] # "raised"
        /\ (AllFailed(t) /\ NoFallback(cur[t].url)) => res[t] = NoneV

C2_Witness ==
    /\ AllFailed("render")
    /\ cur["render"].url = Url("get_ohlc")
    /\ files[OHLC_FILE] = "corrupt"
    /\ res["render"] = NoneV

\* The TTL the claim gives each endpoint, in seconds.
ClaimedTTL(fn) ==
    CASE fn = "get_metadata" -> 600
      [] fn = "get_live_market" -> 300
      [] fn = "get_ohlc" -> 600
      [] fn = "get_market_chart" -> 600

\* Thread t takes a step of its endpoint call.
Moves(t) == pc'[t] # pc[t] \/ phase'[t] # phase[t]

\* Thread t is about to read the entry of its call, stored and younger than
\* the claimed TTL.
ReadsUnexpired(t) ==
    /\ pc[t] \in CallPositions
    /\ phase[t] = "idle"
    /\ ttlc[CallAt(pc[t])].present
    /\ now < ttlc[CallAt(pc[t])].ts + ClaimedTTL(CallAt(pc[t]).fn)

\* C3: a read of a cached endpoint before the entry's TTL has elapsed returns
\* the stored value, whatever it is, enters neither _fetch nor the memo and
\* makes no HTTP GET.
C3_HitNoNetwork ==
    [][\A t \in Threads :
          (ReadsUnexpired(t) /\ Moves(t)) =>
              /\ rd'[t] = "hit"
              /\ phase'[t] = "idle"
              /\ t = "render" => ret' = ttlc[CallAt(pc[t])].val
              /\ gets' = gets
              /\ memo' = memo
              /\ ttlc' = ttlc]_vars

\* A hit that returned the stored failure marker.
C3_Witness ==
    /\ rd["render"] = "hit"
    /\ pc["render"] = "live_use"
    /\ ret = NoneV
    /\ ttlc[Call("get_live_market", 0)].val = NoneV

\* C4: the _fetch call made for an expired entry goes to the transport, with
\* at least one and at most `retries` HTTP GETs.
C4_ExpiredReadRefetches ==
    \A t \in Threads :
        (rd[t] = "expired" /\ phase[t] = "fetched") =>
            (gets[t] >= 1 /\ gets[t] <= cur[t].retries)

\* The lru_cache keys of the calls the page makes.
AppKeys == {MemoKey(Url(k.fn), FetchArgs(k)) : k \in CallKeys}

CurKey(c) == MemoKey(c.url, c.args)

\* C5: with no more than 16 distinct keys requested, a value _fetch returned
\* for a key is in the memo from then on, unchanged, and a later call with
\* that key returns it without an HTTP GET.
C5_MemoSticks ==
    [][Cardinality(AppKeys) <= 16 =>
          /\ \A i \in DOMAIN memo :
                /\ InMemo(memo', memo[i].key)
                /\ MemoVal(memo', memo[i].key) = memo[i].val
          /\ \A t \in Threads :
                /\ (phase[t] = "idle" /\ phase'[t] # "idle"
                        /\ InMemo(memo, CurKey(cur'[t])))
                    => /\ phase'[t] = "fetched"
                       /\ res'[t] = MemoVal(memo, CurKey(cur'[t]))
                       /\ gets' = gets
                /\ (phase[t] # "fetched" /\ phase'[t] = "fetched")
                    => /\ InMemo(memo', CurKey(cur'[t]))
                       /\ MemoVal(memo', CurKey(cur'[t])) = res'[t]]_vars

\* The memo answered a later call with the failure marker it had kept.
C5_Witness ==
    /\ phase["render"] = "fetched"
    /\ mh["render"]
    /\ res["render"] = NoneV
    /\ gets["render"] = 0

\* C6: whatever the four queries return, a render of app() reaches the
\* Summary section.
C6_SummaryReached ==
    (pc["render"] = "end" /\ "title" \in shown) => "summary" \in shown

\* C7: two parameter mappings with the same items, inserted in any order,
\* get the same cache key.
SameItems(a, b) == {a[i] : i \in DOMAIN a} = {b[i] : i \in DOMAIN b}

C7_OrderIndependentKey ==
    (hk # <<>> /\ hp[1] # None /\ hp[2] # None /\ SameItems(hp[1][1], hp[2][1]))
        => hk[1] = hk[2]

C7_Witness ==
    /\ hk # <<>>
    /\ hp[1] # None
    /\ hp[2] # None
    /\ SameItems(hp[1][1], hp[2][1])
    /\ hp[1] # hp[2]
    /\ hk[1] = hk[2]

\* C8 as stated: without a `student` parameter the landing page and nothing
\* else; with a parameter never the landing page but the named page or an
\* inline error; no exception leaves load_student_page.
C8_AnyParamDispatches ==
    pc["render"] = "end" =>
        /\ req = None => shown = {"landing"}
        /\ req # None => ("landing" \notin shown /\ shown \cap {"error", "title"} # {})
        /\ "traceback" \notin shown

Named == req # None /\ req[1] # ""

\* C8: with no `student` parameter, or an empty one, the landing page and no
\* asset page; with a non-empty one the named page, or the inline error alone
\* when the name is unknown or has no entry function, or the inline error
\* after what the page had rendered when the page raised; no exception leaves
\* load_student_page.
C8_RouterRendersOne ==
    /\ "traceback" \notin shown
    /\ pc["render"] = "end" =>
        /\ ~Named => shown = {"landing"}
        /\ Named =>
            /\ "landing" \notin shown
            /\ req[1] # "student_twinkle" => shown = {"error"}
            /\ req[1] = "student_twinkle" =>
                  /\ "title" \in shown
                  /\ ("summary" \in shown) # ("error" \in shown)

\* The page raised and the router showed the inline error.
C8_Witness ==
    /\ pc["render"] = "end"
    /\ req = Some("student_twinkle")
    /\ "error" \in shown
    /\ "candle" \in shown

\* The warm-up is over and the upstream answered it.
WarmUpOk ==
    /\ pc["warm"] = "w_done"
    /\ "warm" \notin warned
    /\ \A p \in {"w_live", "w_ohlc", "w_meta"} :
          ttlc[CallAt(p)].present /\ ttlc[CallAt(p)].val.kind \in {"live", "odd"}

\* C9: once the warm-up is over with the upstream available, each query the
\* render issues is a hit of the TTL cache and makes no HTTP GET.
C9_WarmRendersHit ==
    [][(WarmUpOk /\ pc["render"] \in {"live", "ohlc", "chart", "meta"}
              /\ phase["render"] = "idle" /\ Moves("render"))
          => (rd'["render"] = "hit" /\ phase'["render"] = "idle")]_vars

\* Per-call counts of one _fetch call.
C10_Counts ==
    \A t \in Threads :
        /\ gets[t] <= cur[t].retries
        /\ mh[t] => gets[t] = 0
        /\ phase[t] = "http" =>
              (last[t] # "ok" /\ gets[t] = attempt[t] /\ sleeps[t] = attempt[t]
               /\ attempt[t] < cur[t].retries)
        /\ (phase[t] = "fetched" /\ ~mh[t]) =>
              /\ sleeps[t] = gets[t] - 1
              /\ last[t] = "fail" => gets[t] = cur[t].retries
        /\ phase[t] # "raised"

\* Per-step rules of one _fetch call: a GET is made only while no attempt
\* has succeeded, a sleep only after a failed attempt that another follows.
C10_Steps ==
    \A t \in Threads :
        /\ gets'[t] > gets[t] => (phase[t] = "http" /\ last[t] # "ok")
        /\ sleeps'[t] > sleeps[t] =>
              (last'[t] = "fail" /\ phase'[t] = "http" /\ gets'[t] < cur[t].retries)

\* C10: an uncached _fetch call makes at most `retries` GETs, none after a
\* success, exactly `retries` when all fail, sleeps only between a failed
\* attempt and the next, and ends with a result.
C10_BoundedRetries ==
    /\ []C10_Counts
    /\ [][C10_Steps]_vars
    /\ (phase["render"] = "http") ~> (phase["render"] = "fetched")

C10_Witness ==
    /\ AllFailed("render")
    /\ cur["render"].retries = MaxRetries
    /\ gets["render"] = MaxRetries
    /\ sleeps["render"] = MaxRetries - 1
    /\ cur["render"].url = Url("get_metadata")

\* A fetch of the warm-up has failed: its running _fetch call has a failed
\* attempt behind it.
WarmFetchFailing ==
    /\ pc["warm"] \in {"w_live", "w_ohlc", "w_meta"}
    /\ phase["warm"] \in {"http", "fetched"}
    /\ last["warm"] = "fail"

\* app() stands at an endpoint call whose entry does not answer and whose
\* compute lock the warm-up holds: the page can only go on once the warm-up
\* has finished that call.
RenderWaitsForWarm ==
    /\ pc["render"] \in {"live", "ohlc", "chart", "meta"}
    /\ phase["render"] = "idle"
    /\ ~Fresh(CallAt(pc["render"]), ttlc, now)
    /\ lock[CallAt(pc["render"])] = "warm"

\* C11: in every interleaving of the render and the warm-up thread a failure
\* of the warm-up's fetches is silent: app() never waits for the warm-up, no
\* exception leaves the warm-up's calls, and the warm-up thread issues no
\* st.warning.
C11_WarmFailureSilent ==
    /\ ~(WarmFetchFailing /\ RenderWaitsForWarm)
    /\ phase["warm"] # "raised"
    /\ "warm" \notin warned

====
